---- MODULE Spec2Model ----
(***************************************************************************)
(* Model of src/drawer.js, the ImageDesignLayout bounding-box visualizer:  *)
(* the draw / clearCanvas requests, the asynchronous image decode, and the *)
(* render step drawWithImage with its legend.                              *)
(***************************************************************************)
EXTENDS Integers, Sequences, FiniteSets, TLC

(***************************************************************************)
(* JavaScript values.  Every number of the program is a binary floating    *)
(* point value that the operators + - * / round to nearest, ties to even.  *)
(* A value is a record [k, m, e]:                                          *)
(*   k = "num"   the finite number m * 2^e, m odd or m = 0 and e = 0       *)
(*   k = "inf"   +Infinity (m = 1) or -Infinity (m = -1)                   *)
(*   k = "nan"   NaN                                                       *)
(*   k = "undef" undefined (a property the JSON document does not have)    *)
(* MantBits is the width of the significand.  The program's numbers have   *)
(* 53 bits; the model keeps the rounding rule and narrows the width so     *)
(* that every operation stays inside TLC's 32-bit integers.                *)
(***************************************************************************)
MantBits == 7

NaN == [k |-> "nan", m |-> 0, e |-> 0]

Undefined == [k |-> "undef", m |-> 0, e |-> 0]

Inf(s) == [k |-> "inf", m |-> s, e |-> 0]

Abs(n) == IF n < 0 THEN -n ELSE n

Sgn(n) == IF n < 0 THEN -1 ELSE IF n = 0 THEN 0 ELSE 1

RECURSIVE BitLen(_)
BitLen(n) == IF n = 0 THEN 0 ELSE 1 + BitLen(n \div 2)

RECURSIVE Norm(_, _)
Norm(m, e) ==
    IF m = 0 THEN [k |-> "num", m |-> 0, e |-> 0]
    ELSE IF m % 2 = 0 THEN Norm(m \div 2, e + 1)
    ELSE [k |-> "num", m |-> m, e |-> e]

\* The number s * m * 2^e (m >= 0; sticky: a nonzero part below m's last bit
\* was cut off) rounded to MantBits bits, nearest, ties to even.
RoundTo(p, s, m, e, sticky) ==
    LET drop == BitLen(m) - p
    IN  IF drop <= 0 THEN Norm(s * m, e)
        ELSE LET hi   == m \div (2 ^ drop)
                 lo   == m % (2 ^ drop)
                 half == 2 ^ (drop - 1)
                 up   == \/ lo > half
                         \/ lo = half /\ sticky
                         \/ lo = half /\ ~sticky /\ hi % 2 = 1
             IN  Norm(s * (IF up THEN hi + 1 ELSE hi), e + drop)

Round(s, m, e, sticky) == RoundTo(MantBits, s, m, e, sticky)

\* A number literal of the JSON document or of the source.
Num(n) == Norm(n, 0)

\* ToNumber: undefined becomes NaN.
ToNumber(v) == IF v.k = "undef" THEN NaN ELSE v

\* a * b
Mul(x, y) ==
    LET a == ToNumber(x)
        b == ToNumber(y)
    IN  IF a.k = "nan" \/ b.k = "nan" THEN NaN
        ELSE IF a.k = "inf" \/ b.k = "inf"
             THEN IF a.m = 0 \/ b.m = 0 THEN NaN ELSE Inf(Sgn(a.m) * Sgn(b.m))
        ELSE Round(Sgn(a.m) * Sgn(b.m), Abs(a.m) * Abs(b.m), a.e + b.e, FALSE)

\* a / b
Div(x, y) ==
    LET a == ToNumber(x)
        b == ToNumber(y)
    IN  IF a.k = "nan" \/ b.k = "nan" THEN NaN
        ELSE IF a.k = "inf"
             THEN IF b.k = "inf" THEN NaN
                  ELSE Inf(a.m * (IF b.m < 0 THEN -1 ELSE 1))
        ELSE IF b.k = "inf" THEN Num(0)
        ELSE IF b.m = 0
             THEN IF a.m = 0 THEN NaN ELSE Inf(Sgn(a.m))
        ELSE IF a.m = 0 THEN Num(0)
        ELSE LET la  == BitLen(Abs(a.m))
                 lb  == BitLen(Abs(b.m))
                 sh  == MantBits + 2 + lb - la
                 num == Abs(a.m) * (2 ^ sh)
                 q   == num \div Abs(b.m)
                 r   == num % Abs(b.m)
             IN  Round(Sgn(a.m) * Sgn(b.m), q, a.e - b.e - sh, r # 0)

\* a + b
Add(x, y) ==
    LET a == ToNumber(x)
        b == ToNumber(y)
    IN  IF a.k = "nan" \/ b.k = "nan" THEN NaN
        ELSE IF a.k = "inf"
             THEN IF b.k = "inf" /\ b.m # a.m THEN NaN ELSE a
        ELSE IF b.k = "inf" THEN b
        ELSE LET lo  == IF a.e < b.e THEN a.e ELSE b.e
                 sum == a.m * (2 ^ (a.e - lo)) + b.m * (2 ^ (b.e - lo))
             IN  IF a.m = 0 THEN b
                 ELSE IF b.m = 0 THEN a
                 ELSE Round(Sgn(sum), Abs(sum), lo, FALSE)

Neg(v) == IF v.k \in {"num", "inf"} THEN [v EXCEPT !.m = -v.m] ELSE v

\* a - b
Sub(x, y) == Add(x, Neg(ToNumber(y)))

(***************************************************************************)
(* Colours.  A CSS colour is a record [kind, v]: "hex" with the six hex    *)
(* digits of '#rrggbb', "rgba" with <<r, g, b, alpha in tenths>>.  The     *)
(* result of a property lookup can also be "undefined" or, for a name the  *)
(* palette object inherits from Object.prototype, an "object" (a function  *)
(* or an object, never a string).                                          *)
(***************************************************************************)
Hex(d) == [kind |-> "hex", v |-> d]

Rgba(r, g, b, a) == [kind |-> "rgba", v |-> <<r, g, b, a>>]

NotAColor(kind) == [kind |-> kind, v |-> <<>>]

TYPE_COLORS ==
    [t \in {"text", "button", "svg", "image", "social_icons", "map", "video",
            "gallery", "contact_form", "section"} |->
        CASE t = "text"         -> <<15, 15, 4, 4, 4, 4>>
          [] t = "button"       -> <<4, 4, 15, 15, 4, 4>>
          [] t = "svg"          -> <<4, 4, 4, 4, 15, 15>>
          [] t = "image"        -> <<15, 15, 10, 10, 0, 0>>
          [] t = "social_icons" -> <<15, 15, 4, 4, 15, 15>>
          [] t = "map"          -> <<4, 4, 15, 15, 15, 15>>
          [] t = "video"        -> <<15, 15, 8, 8, 4, 4>>
          [] t = "gallery"      -> <<8, 8, 15, 15, 4, 4>>
          [] t = "contact_form" -> <<8, 8, 4, 4, 15, 15>>
          [] t = "section"      -> <<15, 15, 15, 15, 15, 15>>]

\* TYPE_COLORS is an object literal: besides its ten own keys, a lookup finds
\* the properties of Object.prototype, all of them functions or objects.
ObjectPrototypeKeys ==
    {"constructor", "toString", "toLocaleString", "valueOf", "hasOwnProperty",
     "isPrototypeOf", "propertyIsEnumerable", "__proto__"}

\* TYPE_COLORS[type]
PaletteLookup(type) ==
    IF type \in DOMAIN TYPE_COLORS THEN Hex(TYPE_COLORS[type])
    ELSE IF type \in ObjectPrototypeKeys THEN NotAColor("object")
    ELSE NotAColor("undefined")

DefaultColor == Hex(<<15, 15, 4, 4, 4, 4>>)

White == Hex(<<15, 15, 15, 15, 15, 15>>)

Black == Hex(<<0, 0, 0, 0, 0, 0>>)

\* TYPE_COLORS[type] || '#ff4444'
TypeColor(type) ==
    IF PaletteLookup(type).kind = "undefined" THEN DefaultColor
    ELSE PaletteLookup(type)

\* colorByType ? (TYPE_COLORS[elementType] || '#ff4444') : '#ff4444'
BoxColor(colorByType, type) == IF colorByType THEN TypeColor(type) ELSE DefaultColor

\* hexToRgba: parses the three digit pairs; hex.slice exists only on a string.
HexToRgbaThrows(color) == color.kind # "hex"

HexToRgba(color, alphaTenths) ==
    Rgba(16 * color.v[1] + color.v[2], 16 * color.v[3] + color.v[4],
         16 * color.v[5] + color.v[6], alphaTenths)

\* ctx.strokeStyle = value: a value that is no CSS colour is ignored.
SetStyle(old, value) == IF value.kind \in {"hex", "rgba"} THEN value ELSE old

(***************************************************************************)
(* The layout document, as JSON.parse returns it.                          *)
(*   layout  : [page_width, hasSections, sections]                         *)
(*   section : [name, height, hasBoxes, bounding_boxes]                    *)
(*   box     : [hasBox2d, box_2d: [left, top, width, height],              *)
(*              hasElement, element: [type], z_index]                      *)
(* A number field is a JavaScript value (Undefined when the property is    *)
(* absent); hasSections, hasBoxes, hasBox2d and hasElement say whether the *)
(* property is there at all.                                               *)
(***************************************************************************)
Box2d(l, t, w, h) == [left |-> Num(l), top |-> Num(t), width |-> Num(w), height |-> Num(h)]

Box(hasBox2d, box2d, hasElement, type, z) ==
    [hasBox2d |-> hasBox2d, box_2d |-> box2d, hasElement |-> hasElement,
     element |-> [type |-> type], z_index |-> z]

Section(name, height, hasBoxes, boxes) ==
    [name |-> name, height |-> height, hasBoxes |-> hasBoxes, bounding_boxes |-> boxes]

Layout(pageWidth, hasSections, sections) ==
    [page_width |-> pageWidth, hasSections |-> hasSections, sections |-> sections]

(***************************************************************************)
(* The calls made on the 2D context since the canvas was last resized: the *)
(* content of the render target.  src = <<section, box>> names the entry   *)
(* of the document a call was made for (box 0: the section itself), where  *)
(* box is the entry's place in bounding_boxes as written.                  *)
(***************************************************************************)
Op(kind, x, y, w, h, paint, text, src) ==
    [op |-> kind, x |-> x, y |-> y, w |-> w, h |-> h, paint |-> paint,
     text |-> text, src |-> src]

\* ctx after canvas.width = ... : the bitmap is cleared, the styles are reset.
NewContext == [ops |-> <<>>, stroke |-> Black, fill |-> Black, used |-> <<>>, threw |-> FALSE]

\* An array in place of the Set: push keeps duplicates.
ArrayPush(used, type) == Append(used, type)

\* usedTypes.add(type): a Set keeps insertion order and no duplicates.
SetAdd(used, type) ==
    IF \E i \in 1..Len(used) : used[i] = type THEN used ELSE Append(used, type)

(***************************************************************************)
(* [...bounding_boxes].sort((a, b) => a.z_index - b.z_index)               *)
(***************************************************************************)
\* The comparator's verdict: -1, 0 or 1; a NaN difference counts as 0.
Compare(a, b) ==
    LET d == Sub(a.z_index, b.z_index)
    IN  IF d.k = "nan" THEN 0 ELSE Sgn(d.m)

\* A consistent comparison function, as Array.prototype.sort requires.
ConsistentComparator(boxes) ==
    \A i, j, k \in 1..Len(boxes) :
        /\ Compare(boxes[i], boxes[i]) = 0
        /\ Compare(boxes[i], boxes[j]) = -Compare(boxes[j], boxes[i])
        /\ (Compare(boxes[i], boxes[j]) = 0 /\ Compare(boxes[j], boxes[k]) = 0)
               => Compare(boxes[i], boxes[k]) = 0
        /\ (Compare(boxes[i], boxes[j]) < 0 /\ Compare(boxes[j], boxes[k]) < 0)
               => Compare(boxes[i], boxes[k]) < 0
        /\ (Compare(boxes[i], boxes[j]) > 0 /\ Compare(boxes[j], boxes[k]) > 0)
               => Compare(boxes[i], boxes[k]) > 0

Perms(n) == {p \in [1..n -> 1..n] : \A i, j \in 1..n : i # j => p[i] # p[j]}

\* The stable ascending order: the permutation p of the places 1..n with
\* boxes[p[1]], boxes[p[2]], ... sorted, equal entries in their written order.
StableOrder(boxes) ==
    CHOOSE p \in Perms(Len(boxes)) :
        \A i, j \in 1..Len(boxes) :
            i < j => \/ Compare(boxes[p[i]], boxes[p[j]]) < 0
                     \/ Compare(boxes[p[i]], boxes[p[j]]) = 0 /\ p[i] < p[j]

\* The orders sort may return: the stable one for a consistent comparator
\* (the sort is stable), any order at all otherwise (implementation-defined).
SortOutcomes(boxes) ==
    IF ConsistentComparator(boxes) THEN {StableOrder(boxes)} ELSE Perms(Len(boxes))

(***************************************************************************)
(* drawWithImage                                                           *)
(***************************************************************************)
\* layout.sections.reduce((sum, section) => sum + section.height, 0)
RECURSIVE SumHeights(_, _)
SumHeights(sections, n) ==
    IF n = 0 THEN Num(0) ELSE Add(SumHeights(sections, n - 1), sections[n].height)

\* A slip of the axes: the height scaled by scaleX.
BoxRectOneScale(box_2d, sectionTop, scaleX, scaleY) ==
    [x      |-> Mul(box_2d.left, scaleX),
     y      |-> Add(sectionTop, Mul(box_2d.top, scaleY)),
     width  |-> Mul(box_2d.width, scaleX),
     height |-> Mul(box_2d.height, scaleX)]

\* Lines 231-235: the scaled position, relative to the section.
BoxRect(box_2d, sectionTop, scaleX, scaleY) ==
    [x      |-> Mul(box_2d.left, scaleX),
     y      |-> Add(sectionTop, Mul(box_2d.top, scaleY)),
     width  |-> Mul(box_2d.width, scaleX),
     height |-> Mul(box_2d.height, scaleY)]

\* The body of sortedBoxes.forEach for one entry (lines 219-266).
DrawBox(ctx, box, src, sectionTop, scaleX, scaleY, options) ==
    IF ctx.threw \/ ~box.hasBox2d \/ ~box.hasElement THEN ctx
    ELSE LET elementType == box.element.type
             rect   == BoxRect(box.box_2d, sectionTop, scaleX, scaleY)
             x      == rect.x
             y      == rect.y
             width  == rect.width
             height == rect.height
             color  == BoxColor(options.colorByType, elementType)
             stroke == SetStyle(ctx.stroke, color)
             stroked == Append(ctx.ops,
                           Op("strokeRect", x, y, width, height, stroke, <<>>, src))
             fill   == HexToRgba(color, 1)
             filled == Append(stroked,
                           Op("fillRect", x, y, width, height, fill, <<>>, src))
             \* the label's background is textMetrics.width + 6 wide: w holds
             \* the 6, text the string that is measured
             labelled == filled \o
                 << Op("fillLabelRect", x, Sub(y, Num(16)), Num(6), Num(16),
                       color, <<elementType>>, src),
                    Op("fillText", Add(x, Num(3)), Sub(y, Num(4)), Num(0), Num(0),
                       White, <<elementType>>, src) >>
         IN  IF HexToRgbaThrows(color)
             THEN [ctx EXCEPT !.used = SetAdd(ctx.used, elementType),
                              !.stroke = stroke, !.ops = stroked, !.threw = TRUE]
             ELSE IF options.showLabels
             THEN [ctx EXCEPT !.used = SetAdd(ctx.used, elementType),
                              !.stroke = stroke, !.fill = White, !.ops = labelled]
             ELSE [ctx EXCEPT !.used = SetAdd(ctx.used, elementType),
                              !.stroke = stroke, !.fill = fill, !.ops = filled]

\* sortedBoxes.forEach over the first n entries of the sorted order.
RECURSIVE DrawBoxes(_, _, _, _, _, _, _, _, _)
DrawBoxes(ctx, boxes, order, n, s, sectionTop, scaleX, scaleY, options) ==
    IF n = 0 THEN ctx
    ELSE DrawBox(DrawBoxes(ctx, boxes, order, n - 1, s, sectionTop, scaleX, scaleY, options),
                 boxes[order[n]], <<s, order[n]>>, sectionTop, scaleX, scaleY, options)

\* Lines 197-212: the section's dashed outline and its name.
DrawOutline(ctx, section, s, sectionTop, sectionHeight, canvasWidth, options) ==
    IF ctx.threw \/ ~options.showSections THEN ctx
    ELSE [ctx EXCEPT
            !.stroke = White,
            !.fill = Rgba(255, 255, 255, 8),
            !.ops = ctx.ops \o
                << Op("strokeRectDashed", Num(0), sectionTop, Num(canvasWidth),
                      sectionHeight, White, <<>>, <<s, 0>>),
                   Op("fillText", Num(10), Add(sectionTop, Num(20)), Num(0), Num(0),
                      Rgba(255, 255, 255, 8), <<"Section: ", section.name>>, <<s, 0>>) >>]

\* sectionYOffset before section s: 0, then += section.height after each one.
RECURSIVE SectionYOffset(_, _)
SectionYOffset(sections, s) ==
    IF s = 1 THEN Num(0)
    ELSE Add(SectionYOffset(sections, s - 1), sections[s - 1].height)

\* layout.sections.forEach over the first n sections (lines 193-270);
\* sorts[s] is the order the sort of section s returned.
RECURSIVE DrawSections(_, _, _, _, _, _, _, _)
DrawSections(ctx, sections, sorts, n, canvasWidth, scaleX, scaleY, options) ==
    IF n = 0 THEN ctx
    ELSE LET before        == DrawSections(ctx, sections, sorts, n - 1, canvasWidth,
                                           scaleX, scaleY, options)
             section       == sections[n]
             sectionTop    == Mul(SectionYOffset(sections, n), scaleY)
             sectionHeight == Mul(section.height, scaleY)
             outlined      == DrawOutline(before, section, n, sectionTop, sectionHeight,
                                          canvasWidth, options)
         IN  IF section.hasBoxes
             THEN DrawBoxes(outlined, section.bounding_boxes, sorts[n],
                            Len(section.bounding_boxes), n, sectionTop,
                            scaleX, scaleY, options)
             ELSE outlined

\* updateLegend: one swatch per used type, in the Set's order.
UpdateLegend(usedTypes, colorByType) ==
    IF ~colorByType \/ Len(usedTypes) = 0 THEN <<>>
    ELSE [i \in 1..Len(usedTypes) |->
            [type       |-> usedTypes[i],
             background |-> HexToRgba(TypeColor(usedTypes[i]), 3),
             border     |-> TypeColor(usedTypes[i])]]

\* What one call leaves behind: the target and the legend, whether the call
\* returned ("done") or threw, and the scale factors it computed.
\* target = [width, height, ops, legend] is the state the call starts from.
DrawWithImage(img, layout, options, sorts, target) ==
    IF ~layout.hasSections
    THEN \* layout.sections.reduce: TypeError, before anything is touched
         [width |-> target.width, height |-> target.height, ops |-> target.ops,
          legend |-> target.legend, outcome |-> "threw",
          scaleX |-> Undefined, scaleY |-> Undefined]
    ELSE LET totalHeight == SumHeights(layout.sections, Len(layout.sections))
             scaleX == Div(Num(img.width), layout.page_width)
             scaleY == Div(Num(img.height), totalHeight)
             image  == [NewContext EXCEPT !.ops =
                           << Op("drawImage", Num(0), Num(0), Num(img.width),
                                 Num(img.height), Black, <<>>, <<0, 0>>) >>]
             ctx    == DrawSections(image, layout.sections, sorts, Len(layout.sections),
                                    img.width, scaleX, scaleY, options)
         IN  [width |-> img.width, height |-> img.height, ops |-> ctx.ops,
              legend |-> IF ctx.threw THEN target.legend
                         ELSE UpdateLegend(ctx.used, options.colorByType),
              outcome |-> IF ctx.threw THEN "threw" ELSE "done",
              scaleX |-> scaleX, scaleY |-> scaleY]

\* The orders the sorts of one render may return, section by section.
RECURSIVE SortChoices(_, _)
SortChoices(sections, n) ==
    IF n = 0 THEN {<<>>}
    ELSE {Append(rest, order) :
            rest \in SortChoices(sections, n - 1),
            order \in IF sections[n].hasBoxes
                      THEN SortOutcomes(sections[n].bounding_boxes)
                      ELSE {<<>>}}

(***************************************************************************)
(* The page: the input form, the canvas, the legend, the error banner and  *)
(* the image decodes in flight.                                            *)
(***************************************************************************)
VARIABLES
    form,      \* pastedImageDataUrl, the two textareas and the three checkboxes
    canvas,    \* [width, height]
    ops,       \* the calls made on the context since the last resize
    legend,    \* the legend's entries
    error,     \* the error banner: [hidden, text]
    pending,   \* the Image objects whose decode has not finished
    req,       \* history: the latest request that took effect (a draw that
               \* started a decode, or clearCanvas)
    call,      \* history: the latest call of drawWithImage
    fresh      \* history: nothing has touched the target since that call

vars == <<form, canvas, ops, legend, error, pending, req, call, fresh>>

\* An image, by what its decode gives: a size, or a failure.
Image(w, h) == [ok |-> TRUE, width |-> w, height |-> h]

BadImage == [ok |-> FALSE, width |-> 0, height |-> 0]

NoLayout == Layout(Undefined, FALSE, <<>>)

NoPaste == [has |-> FALSE, img |-> BadImage]

Pasted(img) == [has |-> TRUE, img |-> img]

\* The Base64 textarea: empty, text normalizeBase64 throws on, or the JSON
\* {"image": ...} of an image.
Base64(kind, img) == [kind |-> kind, img |-> img]

\* The layout textarea: empty, text JSON.parse throws on, or a document.
Json(kind, layout) == [kind |-> kind, layout |-> layout]

Form(pasted, base64, json, showLabels, showSections, colorByType) ==
    [pasted |-> pasted, base64 |-> base64, json |-> json, showLabels |-> showLabels,
     showSections |-> showSections, colorByType |-> colorByType]

Options(f) ==
    [showLabels |-> f.showLabels, showSections |-> f.showSections,
     colorByType |-> f.colorByType]

NoCall ==
    [outcome |-> "none", img |-> BadImage, layout |-> NoLayout,
     options |-> [showLabels |-> FALSE, showSections |-> FALSE, colorByType |-> FALSE],
     scaleX |-> Undefined, scaleY |-> Undefined]

NoRequest ==
    [kind |-> "none", img |-> BadImage, layout |-> NoLayout,
     options |-> [showLabels |-> FALSE, showSections |-> FALSE, colorByType |-> FALSE]]

ShowError(text) == [hidden |-> FALSE, text |-> text]

HideError(e) == [e EXCEPT !.hidden = TRUE]

RemoveAt(seq, i) == SubSeq(seq, 1, i - 1) \o SubSeq(seq, i + 1, Len(seq))

\* draw(): lines 105-163.  cap bounds the decodes in flight.
Draw(cap) ==
    /\ Len(pending) < cap
    /\ UNCHANGED <<form, canvas, ops, legend, call, fresh>>
    /\ IF ~form.pasted.has /\ form.base64.kind = "invalid"
       THEN error' = ShowError("Invalid base64 image: ...") /\ UNCHANGED <<pending, req>>
       ELSE IF ~form.pasted.has /\ form.base64.kind = "empty"
       THEN error' = ShowError("Please provide an image (paste from clipboard or enter Base64 JSON)")
            /\ UNCHANGED <<pending, req>>
       ELSE IF form.json.kind = "empty"
       THEN error' = ShowError("Please provide ImageDesignLayout JSON")
            /\ UNCHANGED <<pending, req>>
       ELSE IF form.json.kind = "invalid"
       THEN error' = ShowError("Invalid JSON: ...") /\ UNCHANGED <<pending, req>>
       ELSE LET img == IF form.pasted.has THEN form.pasted.img ELSE form.base64.img
                job == [img |-> img, layout |-> form.json.layout, options |-> Options(form)]
            IN  /\ error' = HideError(error)
                /\ pending' = Append(pending, job)
                /\ req' = [kind |-> "draw", img |-> job.img, layout |-> job.layout,
                           options |-> job.options]

\* The load listener of a pending image: drawWithImage (lines 150-156, 165-274).
ImageLoad(i) ==
    /\ pending[i].img.ok
    /\ \E sorts \in SortChoices(pending[i].layout.sections, Len(pending[i].layout.sections)) :
         \E r \in {DrawWithImage(pending[i].img, pending[i].layout, pending[i].options,
                                  sorts, [width |-> canvas.width, height |-> canvas.height,
                                          ops |-> ops, legend |-> legend])} :
             /\ canvas' = [width |-> r.width, height |-> r.height]
             /\ ops' = r.ops
             /\ legend' = r.legend
             /\ call' = [outcome |-> r.outcome, img |-> pending[i].img,
                         layout |-> pending[i].layout, options |-> pending[i].options,
                         scaleX |-> r.scaleX, scaleY |-> r.scaleY]
    /\ fresh' = TRUE
    /\ pending' = RemoveAt(pending, i)
    /\ UNCHANGED <<form, error, req>>

\* img.onerror of a pending image: lines 158-160.
ImageError(i) ==
    /\ ~pending[i].img.ok
    /\ error' = ShowError("Failed to load image. Make sure the image data is valid.")
    /\ pending' = RemoveAt(pending, i)
    /\ UNCHANGED <<form, canvas, ops, legend, req, call, fresh>>

\* clearCanvas(): lines 32-41, with clearPastedImage (lines 328-341).
ClearCanvas ==
    /\ canvas' = [width |-> 0, height |-> 0]
    /\ ops' = <<>>
    /\ legend' = <<>>
    /\ error' = HideError(error)
    /\ form' = [form EXCEPT !.pasted = NoPaste]
    /\ req' = [NoRequest EXCEPT !.kind = "clear"]
    /\ fresh' = FALSE
    /\ UNCHANGED <<pending, call>>

(***************************************************************************)
(* The inputs.  A behaviour starts with the form filled in; the documents  *)
(* come from five bounded families, each varying what one group of the     *)
(* statements below is about.                                              *)
(***************************************************************************)
MaxPending == 1

MaxSections == 2

MaxBoxes == 3

MaxEntries == 2

SeqsUpTo(S, n) == UNION {[1..k -> S] : k \in 0..n}

\* The box_2d of entry b of section s: four different numbers.
RectAt(s, b) == Box2d(b - 1, s, b + 1, s + 2)

\* Geometry: page widths, section heights, sections with and without boxes.
GeomLayouts ==
    {Layout(Num(pw), TRUE,
            [s \in 1..Len(secs) |->
                Section("Hero", Num(secs[s].h), secs[s].boxes,
                        IF secs[s].boxes
                        THEN <<Box(TRUE, RectAt(s, 1), TRUE, "text", Num(0))>>
                        ELSE <<>>)]) :
        pw \in {1, 3},
        secs \in SeqsUpTo([h : {1, 2, 3}, boxes : BOOLEAN], MaxSections) \ {<<>>}}

GeomForms ==
    {Form(NoPaste, Base64("image", img), Json("layout", l), outlines, outlines, FALSE) :
        img \in {Image(2, 1), Image(3, 4)}, l \in GeomLayouts, outlines \in BOOLEAN}

\* Documents the render step is meant to refuse, beside one it is not.
EdgeLayouts ==
    {Layout(pw, TRUE, secs) :
        pw \in {Undefined, Num(0), Num(-1), Num(2)},
        secs \in {<<>>,
                  <<Section("Hero", Num(0), TRUE,
                            <<Box(TRUE, RectAt(1, 1), TRUE, "text", Num(0))>>)>>,
                  <<Section("Hero", Undefined, TRUE, <<>>)>>,
                  <<Section("Hero", Num(2), TRUE,
                            <<Box(TRUE, RectAt(1, 1), TRUE, "text", Num(0))>>)>>}}
    \cup {Layout(Num(2), FALSE, <<>>)}

EdgeForms ==
    {Form(NoPaste, Base64("image", Image(2, 2)), Json("layout", l), FALSE, TRUE, TRUE) :
        l \in EdgeLayouts}

\* Stacking order: one section, every z_index a number or absent.
OrderLayouts ==
    {Layout(Num(2), TRUE,
            <<Section("Hero", Num(2), TRUE,
                      [b \in 1..Len(zs) |->
                          Box(TRUE, RectAt(1, b), TRUE,
                              IF b % 2 = 1 THEN "text" ELSE "button", zs[b])])>>) :
        zs \in SeqsUpTo({Undefined, Num(0), Num(1)}, MaxBoxes)}

OrderForms ==
    {Form(NoPaste, Base64("image", Image(2, 2)), Json("layout", l), FALSE, FALSE, TRUE) :
        l \in OrderLayouts}

\* Entries: well-formed ones of several types and malformed ones, spread
\* over the sections; the z_index alternates so that the sort reorders.
EntryKinds ==
    {[box2d |-> TRUE, element |-> TRUE, type |-> t] :
        t \in {"button", "widget", "constructor"}}
    \cup {[box2d |-> FALSE, element |-> TRUE, type |-> "button"],
          [box2d |-> TRUE, element |-> FALSE, type |-> "button"]}

\* The entries es cut into sections after the places in cuts (ascending).
SectionsOf(es, cuts) ==
    [s \in 1..Len(cuts) + 1 |->
        LET from == IF s = 1 THEN 0 ELSE cuts[s - 1]
            to   == IF s = Len(cuts) + 1 THEN Len(es) ELSE cuts[s]
        IN  Section("Hero", Num(s), TRUE,
                    [b \in 1..(to - from) |->
                        Box(es[from + b].box2d, RectAt(s, b), es[from + b].element,
                            es[from + b].type, Num(b % 2))])]

\* The ways to put n entries into one section, or into two.
Cuts(n) == {<<>>} \cup {<<c>> : c \in 0..n}

EntryLayouts ==
    UNION {{Layout(Num(2), TRUE, SectionsOf(es, cuts)) : cuts \in Cuts(Len(es))} :
            es \in SeqsUpTo(EntryKinds, MaxEntries)}

EntryForms ==
    {Form(NoPaste, Base64("image", Image(2, 3)), Json("layout", l), FALSE, TRUE, byType) :
        l \in EntryLayouts, byType \in BOOLEAN}

\* The scenario of the specification's section 8.
ScenarioLayout ==
    Layout(Num(1000), TRUE,
           <<Section("Hero", Num(500), TRUE,
                     <<Box(TRUE, Box2d(0, 0, 500, 100), TRUE, "text", Num(1))>>)>>)

ScenarioImage == Image(2000, 1000)

\* The ways the form can be filled in.
InputForms ==
    {Form(pasted, base64, json, FALSE, TRUE, TRUE) :
        pasted \in {NoPaste, Pasted(Image(1, 1)), Pasted(BadImage)},
        base64 \in {Base64("empty", BadImage), Base64("invalid", BadImage),
                    Base64("image", Image(2, 2)), Base64("image", BadImage)},
        json \in {Json("empty", NoLayout), Json("invalid", NoLayout),
                  Json("layout", ScenarioLayout)}}

Forms ==
    GeomForms \cup EdgeForms \cup OrderForms \cup EntryForms \cup InputForms
    \cup {Form(NoPaste, Base64("image", ScenarioImage), Json("layout", ScenarioLayout),
               TRUE, TRUE, TRUE)}

Init ==
    /\ form \in Forms
    /\ canvas = [width |-> 0, height |-> 0]
    /\ ops = <<>>
    /\ legend = <<>>
    /\ error = [hidden |-> TRUE, text |-> ""]
    /\ pending = <<>>
    /\ req = NoRequest
    /\ call = NoCall
    /\ fresh = FALSE

Next ==
    \/ Draw(MaxPending)
    \/ \E i \in 1..Len(pending) : ImageLoad(i)
    \/ \E i \in 1..Len(pending) : ImageError(i)
    \/ ClearCanvas

Spec == Init /\ [][Next]_vars

(***************************************************************************)
(* What the statements below speak of.                                     *)
(***************************************************************************)
Positive(v) == v.k = "num" /\ v.m > 0

\* a < b and a <= b: false unless both are finite numbers
Less(a, b) ==
    /\ a.k = "num"
    /\ b.k = "num"
    /\ LET lo == IF a.e < b.e THEN a.e ELSE b.e
       IN  a.m * (2 ^ (a.e - lo)) < b.m * (2 ^ (b.e - lo))

Leq(a, b) == (a.k = "num" /\ a = b) \/ Less(a, b)

\* The target and the legend are as the latest call of drawWithImage left them.
Rendered == call.outcome # "none" /\ fresh

TotalHeight(l) == SumHeights(l.sections, Len(l.sections))

\* A document the render step is to refuse.
InvalidDoc(l) ==
    \/ ~Positive(l.page_width)
    \/ ~l.hasSections
    \/ Len(l.sections) = 0
    \/ ~Positive(TotalHeight(l))

\* A document as section 3 of the specification describes it.
ValidDoc(l) ==
    /\ Positive(l.page_width)
    /\ l.hasSections
    /\ Len(l.sections) > 0
    /\ \A s \in 1..Len(l.sections) : Positive(l.sections[s].height)

BoxOps == {"strokeRect", "fillRect"}

EntryOf(l, src) == l.sections[src[1]].bounding_boxes[src[2]]

WellFormed(box) == box.hasBox2d /\ box.hasElement

\* The places <<section, entry>> of the document's entries.
Entries(l) ==
    {<<s, b>> : s \in 1..Len(l.sections), b \in 1..MaxBoxes + MaxEntries} \cap
    {src \in (1..Len(l.sections)) \X (1..MaxBoxes + MaxEntries) :
        /\ l.sections[src[1]].hasBoxes
        /\ src[2] <= Len(l.sections[src[1]].bounding_boxes)}

\* The entries that were stroked, in the order of the strokes.
StrokedSrcs == SelectSeq([k \in 1..Len(ops) |-> ops[k]], LAMBDA o : o.op = "strokeRect")

\* The scale factors and section offsets as the specification defines them.
SpecScaleX(c) == Div(Num(c.img.width), c.layout.page_width)

SpecScaleY(c) == Div(Num(c.img.height), TotalHeight(c.layout))

SpecSectionTop(c, s) == Mul(SpecScaleY(c), SumHeights(c.layout.sections, s - 1))

(***************************************************************************)
(* C1.  A render of a document whose page_width is zero, negative or       *)
(* missing, whose sections are missing or empty, or whose heights sum to   *)
(* zero signals an error to its caller and computes no infinite or NaN     *)
(* scale factor.                                                           *)
(***************************************************************************)
C1_InvalidDocRefused ==
    (call.outcome # "none" /\ InvalidDoc(call.layout)) =>
        /\ call.outcome = "threw"
        /\ call.scaleX.k \notin {"inf", "nan"}
        /\ call.scaleY.k \notin {"inf", "nan"}

(***************************************************************************)
(* C2.  A render attempted with an invalid document leaves the render      *)
(* target as it was: the canvas size, what is drawn and the legend.        *)
(***************************************************************************)
C2_InvalidDocLeavesTarget ==
    [][(\E i \in 1..Len(pending) :
            /\ pending[i].img.ok
            /\ InvalidDoc(pending[i].layout)
            /\ pending' = RemoveAt(pending, i))
        => (canvas' = canvas /\ ops' = ops /\ legend' = legend)]_vars

C4_OffsetsUsed ==
    \A k \in 1..Len(ops) :
        /\ ops[k].op = "strokeRectDashed" =>
              ops[k].y = SpecSectionTop(call, ops[k].src[1])
        /\ ops[k].op \in BoxOps =>
              ops[k].y = Add(SpecSectionTop(call, ops[k].src[1]),
                             Mul(EntryOf(call.layout, ops[k].src).box_2d.top,
                                 SpecScaleY(call)))

C4_OffsetsMonotone ==
    /\ SpecSectionTop(call, 1) = Num(0)
    /\ \A s \in 1..Len(call.layout.sections) - 1 :
          Leq(SpecSectionTop(call, s), SpecSectionTop(call, s + 1))

C4_OffsetsFillImage ==
    LET n == Len(call.layout.sections)
    IN  Add(SpecSectionTop(call, n), Mul(SpecScaleY(call), call.layout.sections[n].height))
            = Num(call.img.height)

C4_OutlinesDrawn ==
    call.options.showSections =>
        \A s \in 1..Len(call.layout.sections) :
            \E k \in 1..Len(ops) :
                /\ ops[k].op = "strokeRectDashed"
                /\ ops[k].src = <<s, 0>>
                /\ ops[k].x = Num(0)
                /\ ops[k].y = SpecSectionTop(call, s)
                /\ ops[k].h = Mul(SpecScaleY(call), call.layout.sections[s].height)

C4_SectionOffsets ==
    (Rendered /\ ValidDoc(call.layout)) =>
        /\ C4_OffsetsUsed
        /\ C4_OffsetsMonotone
        /\ C4_OffsetsFillImage
        /\ C4_OutlinesDrawn

(***************************************************************************)
(* C5.  Sections are drawn in document order and, inside a section, of two *)
(* drawn boxes the one with the smaller z_index is drawn first and two     *)
(* with equal z_index are drawn in the order they are written.             *)
(***************************************************************************)
ZIndex(src) == EntryOf(call.layout, src).z_index

C5_DrawOrder ==
    (Rendered /\ ValidDoc(call.layout)) =>
        \A i, j \in 1..Len(StrokedSrcs) :
            LET a == StrokedSrcs[i].src
                b == StrokedSrcs[j].src
            IN  /\ (i < j) => a[1] <= b[1]
                /\ (a[1] = b[1] /\ Less(ZIndex(a), ZIndex(b))) => i < j
                /\ (a[1] = b[1] /\ ZIndex(a) = ZIndex(b) /\ ZIndex(a).k = "num"
                      /\ a[2] < b[2]) => i < j

(***************************************************************************)
(* C6.  In a section that mixes boxes without a numeric z_index with boxes *)
(* that have one, the draw order is the stable ascending order obtained    *)
(* after replacing each missing z_index by 0, and the render does not      *)
(* fail.                                                                   *)
(***************************************************************************)
ZDefaulted(boxes) ==
    [b \in 1..Len(boxes) |->
        IF boxes[b].z_index.k = "num" THEN boxes[b]
        ELSE [boxes[b] EXCEPT !.z_index = Num(0)]]

MixesZIndex(section) ==
    /\ section.hasBoxes
    /\ \E b \in 1..Len(section.bounding_boxes) : section.bounding_boxes[b].z_index.k # "num"
    /\ \E b \in 1..Len(section.bounding_boxes) : section.bounding_boxes[b].z_index.k = "num"

\* The places of section s, in the order their boxes were stroked.
StrokedIn(s) ==
    LET mine == SelectSeq(StrokedSrcs, LAMBDA o : o.src[1] = s)
    IN  [k \in 1..Len(mine) |-> mine[k].src[2]]

C6_MissingZIndexIsZero ==
    (Rendered /\ ValidDoc(call.layout)) =>
        \A s \in 1..Len(call.layout.sections) :
            MixesZIndex(call.layout.sections[s]) =>
                /\ call.outcome = "done"
                /\ StrokedIn(s) = StableOrder(ZDefaulted(call.layout.sections[s].bounding_boxes))

(***************************************************************************)
(* C7.  A render of a document with entries that lack box_2d or element    *)
(* does not throw: nothing is drawn for such an entry, its type is not     *)
(* recorded for it, and every entry that has both is drawn, before and     *)
(* after it.                                                               *)
(***************************************************************************)
Drawn(src) == \E k \in 1..Len(ops) : ops[k].src = src

C7_MalformedSkipped ==
    (/\ Rendered
     /\ ValidDoc(call.layout)
     /\ \E src \in Entries(call.layout) : ~WellFormed(EntryOf(call.layout, src))) =>
        /\ call.outcome = "done"
        /\ \A src \in Entries(call.layout) :
              Drawn(src) <=> WellFormed(EntryOf(call.layout, src))
        /\ \A e \in 1..Len(legend) :
              \E src \in Entries(call.layout) :
                  /\ WellFormed(EntryOf(call.layout, src))
                  /\ EntryOf(call.layout, src).element.type = legend[e].type

(***************************************************************************)
(* C8.  A drawn box has the single default colour when colorByType is off; *)
(* when it is on, its type's palette colour if the type is one of the ten  *)
(* palette names and the fallback colour for any other type; the legend    *)
(* swatch of a type has the colour of the boxes of that type.              *)
(***************************************************************************)
SpecColor(colorByType, type) ==
    IF colorByType /\ type \in DOMAIN TYPE_COLORS THEN Hex(TYPE_COLORS[type])
    ELSE DefaultColor

C8_BoxColours ==
    (Rendered /\ ValidDoc(call.layout)) =>
        /\ \A k \in 1..Len(ops) :
              ops[k].op = "strokeRect" =>
                  ops[k].paint = SpecColor(call.options.colorByType,
                                           EntryOf(call.layout, ops[k].src).element.type)
        /\ call.outcome = "done" =>
              \A e \in 1..Len(legend) :
                  legend[e].border = SpecColor(call.options.colorByType, legend[e].type)

(***************************************************************************)
(* C9.  After a completed render the legend lists the distinct types of    *)
(* the boxes that render drew, each once, in the order they were first     *)
(* drawn; it is empty when colorByType is off or nothing was drawn; what   *)
(* an earlier render listed is gone.                                       *)
(***************************************************************************)
RECURSIVE FirstDrawn(_)
FirstDrawn(n) ==
    IF n = 0 THEN <<>>
    ELSE LET type == EntryOf(call.layout, StrokedSrcs[n].src).element.type
             before == FirstDrawn(n - 1)
         IN  IF \E e \in 1..Len(before) : before[e] = type THEN before
             ELSE Append(before, type)

C9_Legend ==
    (Rendered /\ call.outcome = "done") =>
        [e \in 1..Len(legend) |-> legend[e].type]
            = IF call.options.colorByType THEN FirstDrawn(Len(StrokedSrcs)) ELSE <<>>

\* A completed render that drew three boxes of two types.
C9_Witness ==
    /\ Rendered
    /\ call.outcome = "done"
    /\ Len(StrokedSrcs) >= 3
    /\ Len(legend) = 2

(***************************************************************************)
(* Requests that overlap.  The user pastes another image, presses draw or  *)
(* clear again while decodes are in flight; each Image's load or error     *)
(* event arrives when its own decode ends, in any order.                   *)
(***************************************************************************)
MaxRacePending == 2

\* setPastedImage: lines 313-326.
SetPastedImage(img) ==
    /\ form' = [form EXCEPT !.pasted = Pasted(img), !.base64 = Base64("empty", BadImage)]
    /\ UNCHANGED <<canvas, ops, legend, error, pending, req, call, fresh>>

RaceImages == {Image(1, 1), Image(2, 1), BadImage}

RaceLayouts ==
    {Layout(Num(pw), TRUE,
            <<Section("s1", Num(1), TRUE,
                      <<Box(TRUE, RectAt(1, 1), TRUE, type, Num(0))>>)>>) :
        pw \in {1, 2}, type \in {"text", "button"}}

RaceForms ==
    {Form(Pasted(img), Base64("image", Image(2, 2)), Json("layout", l), FALSE, FALSE, TRUE) :
        img \in RaceImages, l \in RaceLayouts}

InitRace ==
    /\ form \in RaceForms
    /\ canvas = [width |-> 0, height |-> 0]
    /\ ops = <<>>
    /\ legend = <<>>
    /\ error = [hidden |-> TRUE, text |-> ""]
    /\ pending = <<>>
    /\ req = NoRequest
    /\ call = NoCall
    /\ fresh = FALSE

NextRace ==
    \/ Draw(MaxRacePending)
    \/ \E img \in RaceImages : SetPastedImage(img)
    \/ \E i \in 1..Len(pending) : ImageLoad(i)
    \/ \E i \in 1..Len(pending) : ImageError(i)
    \/ ClearCanvas

SpecRace == InitRace /\ [][NextRace]_vars

(***************************************************************************)
(* C10.  Once no decode is pending the target and the legend are those of  *)
(* the latest request: the render of the last draw's image, layout and     *)
(* options, or a zero-size canvas with an empty legend if clearCanvas came *)
(* last.                                                                   *)
(***************************************************************************)
C10_LatestRequestWins ==
    pending = <<>> =>
        /\ req.kind = "clear" =>
              /\ canvas = [width |-> 0, height |-> 0]
              /\ ops = <<>>
              /\ legend = <<>>
        /\ (req.kind = "draw" /\ req.img.ok) =>
              /\ fresh
              /\ call.img = req.img
              /\ call.layout = req.layout
              /\ call.options = req.options

====
